---- MODULE Spec2Model ----
(***************************************************************************)
(* Model of the remote-call execution layer of nestjs-serverless:          *)
(*   - the retry executors UtilService.retryOnException and                *)
(*     AbstractProvider.retry;                                             *)
(*   - the HTTP client HttpsService (setupInstance, request).              *)
(***************************************************************************)
EXTENDS Integers, Sequences, FiniteSets, TLC

(***************************************************************************)
(* Bounds of the model.                                                    *)
(***************************************************************************)
MaxRetries == 2
MaxTimeout == 2
MaxDelay == 1
\* fails and succs count 0, 1, ..., HistCap-or-more
HistCap == 2

\* Saturation points of the unbounded counters of the retry loops; each is
\* above every value the counter is compared with.
TentCap == MaxRetries + 2
CallCap == MaxRetries + 3
ClockCap == MaxTimeout + 2

(***************************************************************************)
(* Values.                                                                 *)
(***************************************************************************)
\* An optional numeric parameter that the caller did not give (undefined).
Unset == -1

\* Errors the retried operation can raise.
Errors == {"E1", "E2"}
NoErr == "none"
\* What a wrapper would raise instead of the caught error.
WrappedErr == "wrapped"

\* Results the retried operation can resolve with (JavaScript values).
Results == {"undefined", "0", "value"}
FalsyResults == {"undefined", "0"}

\* breakIf / validateRetry: absent, or the set of errors it returns true on.
NoPred == {"absent"}
PredDom == {NoPred} \cup SUBSET Errors

Impls == {"util", "abstract"}

(***************************************************************************)
(* Values of the HTTP client.                                              *)
(***************************************************************************)
\* Number of request() calls that can be in flight on the instance.
NumCalls == 1
Calls == 1..NumCalls
\* How many request() calls are in flight together where concurrency is checked.
ConcCalls == 2
ConcCallSet == 1..ConcCalls
AllCalls == Calls \cup ConcCallSet

\* An optional object: absent (undefined) or present.
None == <<>>
Some(x) == <<x>>
IsSome(o) == o # None
Get(o) == o[1]

\* URLs, form fields and template values are strings spelled as sequences of
\* characters; header names and values, methods and bodies are compared as
\* wholes only and are plain strings.
S_base == <<"h", "/">>
S_a == <<"/", "a">>
S_tpl == <<"/", ":", "i", "d">>
S_k == <<"k">>
S_v == <<"v">>
S_w == <<"w">>
S_id == <<"i", "d">>
S_xy == <<"x", "/", "y">>
FormContentType == "application/x-www-form-urlencoded"

\* Objects are sequences of <<key, value>> pairs in insertion order.
EmptyObj == <<>>
Keys(o) == {o[i][1] : i \in 1..Len(o)}
HasKey(o, k) == k \in Keys(o)
Lookup(o, k) == o[CHOOSE i \in 1..Len(o) : o[i][1] = k][2]

HTTPS_DEFAULT_TIMEOUT == 3

\* Responses of the transport: each status comes with its own headers and body.
Statuses == {200, 399, 400, 500}
BodyOf(st) == CASE st = 200 -> "body-200" [] st = 399 -> "body-399"
                [] st = 400 -> "body-400" [] OTHER -> "body-500"
HeadersOf(st) == <<<<"x-status", BodyOf(st)>>>>
Responses == {[status |-> st, headers |-> HeadersOf(st), data |-> BodyOf(st)] : st \in Statuses}

\* Messages of the exceptions the transport can raise.
M_axiosTimeout == <<"t","i","m","e","o","u","t"," ","o","f"," ","1","m","s"," ","e","x","c","e","e","d","e","d">>
M_network == <<"N","e","t","w","o","r","k"," ","E","r","r","o","r">>
M_etimedout == <<"c","o","n","n","e","c","t"," ","E","T","I","M","E","D","O","U","T">>
M_empty == <<>>
Messages == {M_axiosTimeout, M_network, M_etimedout, M_empty}
W_timeout == <<"t","i","m","e","o","u","t">>

\* Status validators: functions of the status, named.
Validators == {"lt400", "lt500", "any"}
NoValidator == "undefined"

ReturnTypes == {"DATA", "FULL"}
NoReturnType == "undefined"

VARIABLES
  impl,        \* which retry implementation runs
  retries,     \* params.retries
  timeout,     \* params.timeout
  delay,       \* params.delay
  pred,        \* params.breakIf (util) / params.validateRetry (abstract)
  pc,          \* Attempting | Running | Halting | Succeeded | Failed
  tentative,   \* let tentative = 1
  result,      \* let result
  now,         \* new Date().getTime() - startTime
  elapsed,     \* const elapsed, as computed in the last catch
  haltLeft,    \* time left of the running halt()/wait()
  raised,      \* the error the executor threw
  calls,       \* number of invocations of the operation started
  fails,       \* number of invocations that threw
  succs,       \* number of invocations that resolved
  waits,       \* number of halt()/wait() calls started
  firstErr,    \* error of the first failed invocation
  lastErr,     \* error of the most recent failed invocation
  lastOk,      \* TRUE when the most recent finished invocation resolved
  firstRes,    \* value the first resolved invocation produced
  instance,          \* this.instance is set (not null)
  instTimeout,       \* this.instance.defaults.timeout
  defaultValidator,  \* this.defaultValidator
  defaultReturnType, \* this.defaultReturnType
  baseUrl,           \* this.baseUrl ("" stands for undefined too: both falsy)
  baseData,          \* this.baseData
  baseHeaders,       \* this.baseHeaders
  setupParams,       \* the options object of the last setupInstance, as left by it
  call,              \* the request() calls: locals and outcome of each
  comp,              \* one params object and what composing it has made of it
  serverIp,          \* UtilService.serverIp, the cache of getServerIp
  ipCall,            \* the getServerIp() calls: position and returned value
  ipFirst            \* history: the first server ip the cache was given

rvars == <<impl, retries, timeout, delay, pred, pc, tentative, result, now,
           elapsed, haltLeft, raised, calls, fails, succs, waits, firstErr,
           lastErr, lastOk, firstRes>>

hvars == <<instance, instTimeout, defaultValidator, defaultReturnType, baseUrl,
           baseData, baseHeaders, setupParams, call>>

ivars == <<serverIp, ipCall, ipFirst>>
vars == <<rvars, hvars, comp, ivars>>

Sat(n, cap) == IF n > cap THEN cap ELSE n

\* JavaScript truthiness of an optional number: undefined and 0 are falsy.
Truthy(x) == x # Unset /\ x # 0

\* JavaScript truthiness of a result value.
Falsy(v) == v \in FalsyResults

\* x || 0
OrZeroNoWait(x) == 0
OrZero(x) == IF Truthy(x) THEN x ELSE 0

\* params.retries && tentative > params.retries
RetriesExceededNoGuard(r, t) == t > r
RetriesExceeded(r, t) == Truthy(r) /\ t > r

\* params.timeout && elapsed > params.timeout
TimeoutExceededGe(tm, el) == Truthy(tm) /\ el >= tm
TimeoutExceeded(tm, el) == Truthy(tm) /\ el > tm

\* params.breakIf?.(e)
BreakIfIgnored(p, e) == FALSE
BreakIf(p, e) == p # NoPred /\ e \in p

\* p.validateRetry && !p.validateRetry(e)
ValidateRetryFails(p, e) == p # NoPred /\ e \notin p

\* the if / else if / else if chain of the catch block
ShouldThrow(i, r, t, tm, el, p, e) ==
  \/ RetriesExceeded(r, t)
  \/ TimeoutExceeded(tm, el)
  \/ IF i = "util" THEN BreakIf(p, e) ELSE ValidateRetryFails(p, e)

\* throw e
RethrowWrapped(e) == WrappedErr
Rethrow(e) == e

\* while (true) / while (!result)
LoopCond(i, res) == IF i = "util" THEN TRUE ELSE Falsy(res)

Terminal == {"Succeeded", "Failed"}

RetryInit ==
  /\ impl \in Impls
  /\ retries \in {Unset} \cup (0..MaxRetries)
  /\ timeout \in {Unset} \cup (0..MaxTimeout)
  /\ delay \in {Unset} \cup (0..MaxDelay)
  /\ pred \in PredDom
  /\ pc = "Attempting"
  /\ tentative = 1
  /\ result = "undefined"
  /\ now = 0
  /\ elapsed = 0
  /\ haltLeft = 0
  /\ raised = NoErr
  /\ calls = 0
  /\ fails = 0
  /\ succs = 0
  /\ waits = 0
  /\ firstErr = NoErr
  /\ lastErr = NoErr
  /\ lastOk = FALSE
  /\ firstRes = "undefined"

\* result = await params.method()  -- the call is made
Invoke ==
  /\ pc = "Attempting"
  /\ pc' = "Running"
  /\ calls' = Sat(calls + 1, CallCap)
  /\ UNCHANGED <<hvars, comp, ivars>>
  /\ UNCHANGED <<impl, retries, timeout, delay, pred, tentative, result, now,
                 elapsed, haltLeft, raised, fails, succs, waits, firstErr,
                 lastErr, lastOk, firstRes>>

\* the awaited call resolves with v
OpSucceeds(v) ==
  /\ pc = "Running"
  /\ result' = v
  /\ pc' = IF impl = "util" THEN "Succeeded"
           ELSE IF LoopCond(impl, v) THEN "Attempting" ELSE "Succeeded"
  /\ succs' = Sat(succs + 1, HistCap)
  /\ firstRes' = IF succs = 0 THEN v ELSE firstRes
  /\ lastOk' = TRUE
  /\ UNCHANGED <<hvars, comp, ivars>>
  /\ UNCHANGED <<impl, retries, timeout, delay, pred, tentative, now, elapsed,
                 haltLeft, raised, calls, fails, waits, firstErr, lastErr>>

\* the awaited call throws e: the catch block
OpFails(e) ==
  /\ pc = "Running"
  /\ elapsed' = now
  /\ fails' = Sat(fails + 1, HistCap)
  /\ firstErr' = IF fails = 0 THEN e ELSE firstErr
  /\ lastErr' = e
  /\ lastOk' = FALSE
  /\ IF ShouldThrow(impl, retries, tentative, timeout, now, pred, e)
       THEN /\ pc' = "Failed"
            /\ raised' = Rethrow(e)
            /\ UNCHANGED <<tentative, haltLeft, waits>>
       ELSE /\ pc' = "Halting"
            /\ tentative' = Sat(tentative + 1, TentCap)
            /\ haltLeft' = OrZero(delay)
            /\ waits' = Sat(waits + 1, CallCap)
            /\ UNCHANGED raised
  /\ UNCHANGED <<hvars, comp, ivars>>
  /\ UNCHANGED <<impl, retries, timeout, delay, pred, result, now, calls,
                 succs, firstRes>>

\* await this.halt(params.delay || 0) returns
HaltDone ==
  /\ pc = "Halting"
  /\ haltLeft = 0
  /\ pc' = IF LoopCond(impl, result) THEN "Attempting" ELSE "Succeeded"
  /\ UNCHANGED <<hvars, comp, ivars>>
  /\ UNCHANGED <<impl, retries, timeout, delay, pred, tentative, result, now,
                 elapsed, haltLeft, raised, calls, fails, succs, waits,
                 firstErr, lastErr, lastOk, firstRes>>

\* one millisecond passes while the executor is suspended in an await
Tick ==
  /\ pc \in {"Running", "Halting"}
  /\ now < ClockCap \/ haltLeft > 0
  /\ now' = Sat(now + 1, ClockCap)
  /\ haltLeft' = IF pc = "Halting" /\ haltLeft > 0 THEN haltLeft - 1 ELSE haltLeft
  /\ UNCHANGED <<hvars, comp, ivars>>
  /\ UNCHANGED <<impl, retries, timeout, delay, pred, pc, tentative, result,
                 elapsed, raised, calls, fails, succs, waits, firstErr,
                 lastErr, lastOk, firstRes>>

OpReturns == (\E v \in Results : OpSucceeds(v)) \/ (\E e \in Errors : OpFails(e))

RetryNext ==
  \/ Invoke
  \/ \E v \in Results : OpSucceeds(v)
  \/ \E e \in Errors : OpFails(e)
  \/ HaltDone
  \/ Tick

(***************************************************************************)
(* HttpsService.                                                           *)
(***************************************************************************)
\* { ...a, ...b }
Merge(a, b) ==
  [i \in 1..Len(a) |-> IF HasKey(b, a[i][1]) THEN <<a[i][1], Lookup(b, a[i][1])>>
                                              ELSE a[i]]
    \o SelectSeq(b, LAMBDA p : ~HasKey(a, p[1]))

\* o[k] = v
SetKey(o, k, v) ==
  IF HasKey(o, k) THEN [i \in 1..Len(o) |-> IF o[i][1] = k THEN <<k, v>> ELSE o[i]]
                  ELSE Append(o, <<k, v>>)

\* A body: an object or a string.
ObjBody(o) == [kind |-> "obj", obj |-> o, str |-> <<>>]
StrBody(t) == [kind |-> "str", obj |-> EmptyObj, str |-> t]

RECURSIVE Concat(_)
Concat(ss) == IF ss = <<>> THEN <<>> ELSE Head(ss) \o Concat(Tail(ss))

\* Percent-encoding of one character (those of the model's alphabet that are
\* not unreserved).
EncodeChar(c) ==
  CASE c = "/" -> <<"%", "2", "F">>
    [] c = ":" -> <<"%", "3", "A">>
    [] c = " " -> <<"%", "2", "0">>
    [] c = "&" -> <<"%", "2", "6">>
    [] c = "=" -> <<"%", "3", "D">>
    [] c = "%" -> <<"%", "2", "5">>
    [] OTHER -> <<c>>

\* encodeURIComponent(t)
EncodeURIComponent(t) == Concat([i \in 1..Len(t) |-> EncodeChar(t[i])])

\* qs.stringify(o): key=value pairs, each percent-encoded, joined by "&"
RECURSIVE QsStringify(_)
QsStringify(o) ==
  IF o = <<>> THEN <<>>
  ELSE EncodeURIComponent(o[1][1]) \o <<"=">> \o EncodeURIComponent(o[1][2])
         \o (IF Len(o) > 1 THEN <<"&">> \o QsStringify(Tail(o)) ELSE <<>>)

IsPrefix(p, t) == Len(p) <= Len(t) /\ SubSeq(t, 1, Len(p)) = p

\* t.replace(new RegExp(pat, 'g'), val), pat a literal
RECURSIVE ReplaceAll(_, _, _)
ReplaceAll(t, pat, val) ==
  IF t = <<>> THEN <<>>
  ELSE IF IsPrefix(pat, t)
         THEN val \o ReplaceAll(SubSeq(t, Len(pat) + 1, Len(t)), pat, val)
         ELSE <<Head(t)>> \o ReplaceAll(Tail(t), pat, val)

\* for (const key in params.replacements) { ... }
RECURSIVE ApplyReplacements(_, _)
ApplyReplacements(url, reps) ==
  IF reps = <<>> THEN url
  ELSE ApplyReplacements(
         ReplaceAll(url, <<":">> \o reps[1][1], EncodeURIComponent(reps[1][2])),
         Tail(reps))

\* t.includes(w)
Includes(t, w) ==
  \E i \in 1..(Len(t) - Len(w) + 1) : SubSeq(t, i, i + Len(w) - 1) = w

\* transformParams(params), as the new value of params
TransformParams(p, bUrl, bHeaders, bData) ==
  LET h0 == IF IsSome(p.headers) THEN Get(p.headers) ELSE EmptyObj
      url1 == IF bUrl # <<>> THEN bUrl \o p.url ELSE p.url
      h1 == Merge(bHeaders, h0)
      data1 == IF IsSome(bData) /\ IsSome(p.data)
                 THEN Some(ObjBody(Merge(Get(bData), Get(p.data).obj)))
                 ELSE p.data
      form1 == IF IsSome(bData) /\ IsSome(p.form)
                 THEN Some(Merge(Get(bData), Get(p.form)))
                 ELSE p.form
      query1 == IF IsSome(bData) /\ IsSome(p.params)
                 THEN Some(Merge(Get(bData), Get(p.params)))
                 ELSE p.params
      h2 == IF IsSome(form1) THEN SetKey(h1, "content-type", FormContentType) ELSE h1
      data2 == IF IsSome(form1) THEN Some(StrBody(QsStringify(Get(form1)))) ELSE data1
      url2 == IF IsSome(p.replacements)
                THEN ApplyReplacements(url1, Get(p.replacements))
                ELSE url1
  IN [p EXCEPT !.headers = Some(h2), !.url = url2, !.data = data2,
               !.form = form1, !.params = query1]

\* the named status validators; (s) => s < 400 is the default of setupInstance
AcceptsLe400(v, st) ==
  CASE v = "lt400" -> st <= 400
    [] v = "lt500" -> st < 500
    [] OTHER -> TRUE
Accepts(v, st) ==
  CASE v = "lt400" -> st < 400
    [] v = "lt500" -> st < 500
    [] OTHER -> TRUE

\* params.validateStatus || this.defaultValidator
EffectiveValidator(pv, dv) == IF pv # NoValidator THEN pv ELSE dv

\* params.returnType || this.defaultReturnType
EffectiveReturnTypeDefaultOnly(pr, dr) == dr
EffectiveReturnType(pr, dr) == IF pr # NoReturnType THEN pr ELSE dr

\* params.timeout || this.instance.defaults.timeout
EffectiveTimeout(pt, it) == IF Truthy(pt) THEN pt ELSE it

\* !this.instance
NotConfiguredNever(inst) == FALSE
NotConfigured(inst) == ~inst

\* Promise.race settles once: a promise that completes after the race has
\* settled does not resume request().
RaceNeverSettles(cpc) == FALSE
RaceSettled(cpc) == cpc # "racing"

\* e.message.includes('timeout') ? 'Request timeout' : 'Request exception'
ExceptionPrefixNeverTimeout(m) == "Request exception"
ExceptionPrefix(m) ==
  IF Includes(m, W_timeout) THEN "Request timeout" ELSE "Request exception"

\* HttpStatus.INTERNAL_SERVER_ERROR, the status of InternalServerErrorException
INTERNAL_SERVER_ERROR == 500

NoError == [kind |-> "none", httpStatus |-> 0, prefix |-> "", method |-> "",
            url |-> <<>>, config |-> None, status |-> Unset, headers |-> None,
            data |-> "undefined"]

NotConfiguredError ==
  [NoError EXCEPT !.kind = "NotConfigured", !.httpStatus = INTERNAL_SERVER_ERROR,
     !.prefix = "https service must be configured with this.setupInstance()"]

NormalizedErrorRaw(prefix, raw, res) ==
  IF prefix = "Request exception"
    THEN [kind |-> "AxiosError", httpStatus |-> 0, prefix |-> prefix,
          method |-> raw.method, url |-> raw.url, config |-> Some(raw),
          status |-> Unset, headers |-> None, data |-> "undefined"]
    ELSE [kind |-> "InternalServerError", httpStatus |-> INTERNAL_SERVER_ERROR,
          prefix |-> prefix, method |-> raw.method, url |-> raw.url,
          config |-> Some(raw),
          status |-> IF IsSome(res) THEN Get(res).status ELSE Unset,
          headers |-> IF IsSome(res) THEN Some(Get(res).headers) ELSE None,
          data |-> IF IsSome(res) THEN Get(res).data ELSE "undefined"]
NormalizedErrorNoHeaders(prefix, raw, res) ==
  [kind |-> "InternalServerError", httpStatus |-> INTERNAL_SERVER_ERROR,
   prefix |-> prefix, method |-> raw.method,
   url |-> raw.url, config |-> Some(raw),
   status |-> IF IsSome(res) THEN Get(res).status ELSE Unset,
   headers |-> None,
   data |-> IF IsSome(res) THEN Get(res).data ELSE "undefined"]
\* new InternalServerErrorException({ message, config, status, headers, data })
NormalizedError(prefix, raw, res) ==
  [kind |-> "InternalServerError", httpStatus |-> INTERNAL_SERVER_ERROR,
   prefix |-> prefix, method |-> raw.method,
   url |-> raw.url, config |-> Some(raw),
   status |-> IF IsSome(res) THEN Get(res).status ELSE Unset,
   headers |-> IF IsSome(res) THEN Some(Get(res).headers) ELSE None,
   data |-> IF IsSome(res) THEN Get(res).data ELSE "undefined"]

NoValue == [kind |-> "none", data |-> "undefined", res |-> None]

\* returnType === HttpsReturnType.DATA ? res.data : res
ReturnValue(rt, res) ==
  IF rt = "DATA" THEN [kind |-> "DATA", data |-> res.data, res |-> None]
                 ELSE [kind |-> "FULL", data |-> "undefined", res |-> Some(res)]

\* Request descriptors callers pass.
BlankParams ==
  [method |-> "GET", url |-> S_a, headers |-> None, data |-> None, form |-> None,
   params |-> None, replacements |-> None, timeout |-> Unset,
   validateStatus |-> NoValidator, returnType |-> NoReturnType,
   cancelToken |-> FALSE]

Descriptors ==
  { BlankParams,
    [BlankParams EXCEPT !.method = "PUT", !.timeout = 1, !.validateStatus = "any",
       !.returnType = "FULL"],
    [BlankParams EXCEPT !.method = "POST", !.url = S_tpl,
       !.headers = Some(<<<<"Content-Type", "application/json">>>>),
       !.form = Some(<<<<S_k, S_w>>>>), !.data = Some(ObjBody(<<<<S_w, S_v>>>>)),
       !.replacements = Some(<<<<S_id, S_xy>>>>)],
    [BlankParams EXCEPT !.method = "DELETE",
       !.headers = Some(<<<<"content-type", "application/json">>>>),
       !.params = Some(<<<<S_v, S_w>>>>), !.timeout = 0, !.returnType = "DATA"] }

\* Options callers pass to setupInstance.
BlankOptions ==
  [defaultValidator |-> NoValidator, defaultReturnType |-> NoReturnType,
   defaultTimeout |-> Unset, baseUrl |-> <<>>, baseData |-> None,
   baseHeaders |-> None, randomizeUserAgent |-> FALSE]

Options ==
  { BlankOptions,
    [BlankOptions EXCEPT !.defaultValidator = "lt500", !.defaultReturnType = "FULL",
       !.defaultTimeout = 2, !.baseUrl = S_base, !.baseData = Some(<<<<S_k, S_v>>>>),
       !.baseHeaders = Some(<<<<"x-api-key", "secret">>>>)],
    [BlankOptions EXCEPT !.randomizeUserAgent = TRUE] }

\* new UserAgent().toString()
UserAgents == {"ua-1", "ua-2"}

IdleCall ==
  [pc |-> "idle", desc |-> BlankParams, params |-> BlankParams, raw |-> None,
   res |-> None, error |-> NoError, value |-> NoValue, transport |-> "none",
   timer |-> "none", cancelled |-> FALSE, winner |-> "none", sends |-> 0,
   exc |-> None]

HttpInit ==
  /\ instance = FALSE
  /\ instTimeout = Unset
  /\ defaultValidator = NoValidator
  /\ defaultReturnType = NoReturnType
  /\ baseUrl = <<>>
  /\ baseData = None
  /\ baseHeaders = None
  /\ setupParams = None
  /\ call = [c \in AllCalls |-> IdleCall]

\* setupInstance(params)
SetupInstance(o, ua) ==
  /\ defaultReturnType' = IF o.defaultReturnType # NoReturnType
                            THEN o.defaultReturnType ELSE "DATA"
  /\ baseUrl' = o.baseUrl
  /\ baseData' = o.baseData
  /\ defaultValidator' = IF o.defaultValidator # NoValidator
                           THEN o.defaultValidator ELSE "lt400"
  /\ LET h0 == IF IsSome(o.baseHeaders) THEN Get(o.baseHeaders) ELSE EmptyObj
         h1 == IF o.randomizeUserAgent THEN SetKey(h0, "user-agent", ua) ELSE h0
     IN /\ baseHeaders' = Some(h1)
        /\ setupParams' = Some([o EXCEPT !.baseHeaders = Some(h1)])
  /\ instance' = TRUE
  /\ instTimeout' = IF Truthy(o.defaultTimeout) THEN o.defaultTimeout
                                                ELSE HTTPS_DEFAULT_TIMEOUT
  /\ UNCHANGED call
  /\ UNCHANGED <<rvars, comp, ivars>>

\* const rawParams = Object.assign({ }, params), taken before
\* transformParams(params): before is params then, after is params as sent
RawParamsAfter(before, after) == after
RawParams(before, after) == before

\* if (!res) source.cancel(): the race resolved with the timer's undefined
ShouldCancelNever(res, prefix0) == FALSE
ShouldCancel(res, prefix0) == prefix0 = "" /\ ~IsSome(res)

\* params.headers = { ...this.baseHeaders, ...params.headers }: the merge is a
\* new object, this.baseHeaders is only read
BaseHeadersAssigned(bh, merged) == Some(merged)
BaseHeadersAfterJoin(bh, merged) == bh

\* request(params), up to the await of the race
Request(c, d) ==
  /\ call[c].pc = "idle"
  /\ IF NotConfigured(instance)
       THEN call' = [call EXCEPT ![c] =
              [@ EXCEPT !.pc = "thrown", !.desc = d, !.params = d,
                        !.error = NotConfiguredError]]
       ELSE LET p1 == [d EXCEPT !.timeout = EffectiveTimeout(d.timeout, instTimeout)]
                p2 == TransformParams(p1, baseUrl,
                        IF IsSome(baseHeaders) THEN Get(baseHeaders) ELSE EmptyObj,
                        baseData)
                p3 == [p2 EXCEPT !.cancelToken = TRUE]
            IN call' = [call EXCEPT ![c] =
                 [@ EXCEPT !.pc = "racing", !.desc = d, !.params = p3,
                           !.raw = Some(RawParams(p1, p3)),
                           !.transport = "inflight", !.sends = @ + 1,
                           !.timer = "pending"]]
  /\ baseHeaders' = IF NotConfigured(instance) THEN baseHeaders
                    ELSE BaseHeadersAfterJoin(baseHeaders, Get(call'[c].params.headers))
  /\ UNCHANGED <<instance, instTimeout, defaultValidator, defaultReturnType,
                 baseUrl, baseData, setupParams>>
  /\ UNCHANGED <<rvars, comp, ivars>>

\* get / post / put / delete (url, params = { }): params.method and
\* params.url are assigned, then request(params)
Verb(c, m, u, d) == Request(c, [d EXCEPT !.method = m, !.url = u])

\* The per-verb calls callers make: method, url and the params object, whose
\* method and url are not yet what the verb will set.
VerbCalls ==
  {<<d.method, d.url, [d EXCEPT !.method = BlankParams.method, !.url = BlankParams.url]>> :
     d \in Descriptors}

\* the rest of request() once the race has produced res or thrown
Settle(k, res, prefix0, won) ==
  LET validator == EffectiveValidator(k.params.validateStatus, defaultValidator)
      prefix == IF prefix0 # "" THEN prefix0
                ELSE IF ~IsSome(res) THEN "Request timeout"
                ELSE IF ~Accepts(validator, Get(res).status) THEN "Request failed"
                ELSE ""
      cancel == ShouldCancel(res, prefix0)
  IN IF prefix # ""
       THEN [k EXCEPT !.pc = "thrown", !.res = res, !.winner = won,
                      !.cancelled = cancel,
                      !.error = NormalizedError(prefix, Get(k.raw), res)]
       ELSE [k EXCEPT !.pc = "returned", !.res = res, !.winner = won,
                      !.value = ReturnValue(
                         EffectiveReturnType(k.params.returnType, defaultReturnType),
                         Get(res))]

\* const source = axios.CancelToken.source(): each call has its own source,
\* source.cancel() reaches no other call
CancelReachesRacing(k) == IF k.pc = "racing" THEN [k EXCEPT !.cancelled = TRUE] ELSE k
OtherCallAfterCancel(k) == k

\* this.wait(params.timeout) resolves
TimerFires(c) ==
  /\ call[c].timer = "pending"
  /\ call' = [d \in AllCalls |->
       IF d = c
         THEN IF RaceSettled(call[c].pc)
                THEN [call[c] EXCEPT !.timer = "fired"]
                ELSE [Settle(call[c], None, "", "timer") EXCEPT !.timer = "fired"]
         ELSE IF RaceSettled(call[c].pc) THEN call[d]
                                         ELSE OtherCallAfterCancel(call[d])]
  /\ UNCHANGED <<instance, instTimeout, defaultValidator, defaultReturnType,
                 baseUrl, baseData, baseHeaders, setupParams>>
  /\ UNCHANGED <<rvars, comp, ivars>>

\* this.instance(params) resolves with a response
TransportResponds(c, r) ==
  /\ call[c].transport = "inflight"
  /\ call' = [call EXCEPT ![c] =
       IF RaceSettled(call[c].pc)
         THEN [@ EXCEPT !.transport = "settled"]
         ELSE [Settle(@, Some(r), "", "transport") EXCEPT !.transport = "settled"]]
  /\ UNCHANGED <<instance, instTimeout, defaultValidator, defaultReturnType,
                 baseUrl, baseData, baseHeaders, setupParams>>
  /\ UNCHANGED <<rvars, comp, ivars>>

\* this.instance(params) rejects with an exception of message m
TransportThrows(c, m) ==
  /\ call[c].transport = "inflight"
  /\ call' = [call EXCEPT ![c] =
       IF RaceSettled(call[c].pc)
         THEN [@ EXCEPT !.transport = "settled"]
         ELSE [Settle(@, None, ExceptionPrefix(m), "transport")
                 EXCEPT !.transport = "settled", !.exc = Some(m)]]
  /\ UNCHANGED <<instance, instTimeout, defaultValidator, defaultReturnType,
                 baseUrl, baseData, baseHeaders, setupParams>>
  /\ UNCHANGED <<rvars, comp, ivars>>

HttpNext ==
  \/ \E o \in Options, ua \in UserAgents : SetupInstance(o, ua)
  \/ \E c \in Calls, d \in Descriptors : Request(c, d)
  \/ \E c \in Calls, v \in VerbCalls : Verb(c, v[1], v[2], v[3])
  \/ \E c \in Calls : TimerFires(c)
  \/ \E c \in Calls, r \in Responses : TransportResponds(c, r)
  \/ \E c \in Calls, m \in Messages : TransportThrows(c, m)

(***************************************************************************)
(* Request composition on its own: lines 69-71 of request() applied to one  *)
(* params object, once and then again to the same object.                  *)
(***************************************************************************)
\* How many times the same params object is passed to request().
MaxComposes == 2

S_baseTpl == <<"h", "/", ":", "i", "d", "/">>
S_tpl2 == <<"/", ":", "i", "d", "2">>
S_tpl12 == <<"/", ":", "i", "d", "/", ":", "i", "d", "2">>
S_id2 == <<"i", "d", "2">>
S_zz == <<"z", "z">>
S_sp == <<"a", " ", "b">>
S_amp == <<"c", "&", "d", "=">>

ComposeConfigs ==
  [bUrl : {<<>>, S_base, S_baseTpl},
   bHeaders : {EmptyObj, <<<<"x-api-key", "secret">>>>,
               <<<<"content-type", "text/plain">>>>},
   bData : {None, Some(<<<<S_k, S_v>>>>)}]

ComposeDescriptors ==
  [method : {"GET"},
   url : {S_a, S_tpl2, S_tpl12},
   headers : {None, Some(<<<<"content-type", "application/json">>>>),
              Some(<<<<"Content-Type", "application/json">>>>)},
   data : {None, Some(ObjBody(<<<<S_w, S_v>>>>))},
   form : {None, Some(<<<<S_k, S_w>>>>), Some(<<<<S_sp, S_amp>>>>)},
   params : {None},
   replacements : {None, Some(<<<<S_id, S_xy>>>>), Some(<<<<S_zz, S_w>>>>),
                   Some(<<<<S_id, S_xy>>, <<S_id2, S_w>>>>),
                   Some(<<<<S_id2, S_w>>, <<S_id, S_xy>>>>)},
   timeout : {Unset, 1},
   validateStatus : {NoValidator},
   returnType : {NoReturnType},
   cancelToken : {FALSE}]

IdleComp ==
  [bUrl |-> <<>>, bHeaders |-> EmptyObj, bData |-> None, input |-> BlankParams,
   params |-> BlankParams, first |-> None, count |-> 0]

\* params.timeout = ...; rawParams = ...; this.transformParams(params)
Compose ==
  /\ comp.count < MaxComposes
  /\ LET p1 == [comp.params EXCEPT
                  !.timeout = EffectiveTimeout(comp.params.timeout, HTTPS_DEFAULT_TIMEOUT)]
         p2 == TransformParams(p1, comp.bUrl, comp.bHeaders, comp.bData)
     IN comp' = [comp EXCEPT !.params = p2, !.count = @ + 1,
                             !.first = IF comp.count = 0 THEN Some(p2) ELSE @]
  /\ UNCHANGED <<rvars, hvars, ivars>>

ComposeNext == Compose

(***************************************************************************)
(* UtilService.getServerIp.                                                *)
(***************************************************************************)
\* How many getServerIp() calls are made.
MaxIpCalls == 3
IpCalls == 1..MaxIpCalls

\* What httpsService.get can resolve with: the body of the response, an ip as
\* text; an empty body is the empty string.
IpUndefined == "undefined"
IpEmpty == ""
IpValues == {"ip-1", "ip-2"}
LookupResults == IpValues \cup {IpEmpty}

\* !this.serverIp
IpFalsy(v) == v \in {IpUndefined, IpEmpty}

IdleIpCall ==
  [pc |-> "idle", ret |-> IpUndefined, sent |-> FALSE, afterSet |-> FALSE,
   failed |-> FALSE]

IpInit ==
  /\ serverIp = IpUndefined
  /\ ipCall = [c \in IpCalls |-> IdleIpCall]
  /\ ipFirst = None

\* getServerIp(), up to the await of httpsService.get or, with the cache set,
\* to the return
GetServerIp(c) ==
  /\ ipCall[c].pc = "idle"
  /\ ipCall' = [ipCall EXCEPT ![c] =
       IF IpFalsy(serverIp)
         THEN [@ EXCEPT !.pc = "awaiting", !.sent = TRUE, !.afterSet = IsSome(ipFirst)]
         ELSE [@ EXCEPT !.pc = "returned", !.ret = serverIp,
                        !.afterSet = IsSome(ipFirst)]]
  /\ UNCHANGED <<serverIp, ipFirst>>
  /\ UNCHANGED <<rvars, hvars, comp>>

\* this.serverIp = await this.httpsService.get(...) resolves with v
LookupResolves(c, v) ==
  /\ ipCall[c].pc = "awaiting"
  /\ serverIp' = v
  /\ ipFirst' = IF ~IsSome(ipFirst) /\ ~IpFalsy(v) THEN Some(v) ELSE ipFirst
  /\ ipCall' = [ipCall EXCEPT ![c] = [@ EXCEPT !.pc = "returned", !.ret = v]]
  /\ UNCHANGED <<rvars, hvars, comp>>

\* httpsService.get throws: the catch block logs, then return this.serverIp
LookupThrows(c) ==
  /\ ipCall[c].pc = "awaiting"
  /\ ipCall' = [ipCall EXCEPT ![c] =
       [@ EXCEPT !.pc = "returned", !.ret = serverIp, !.failed = TRUE]]
  /\ UNCHANGED <<serverIp, ipFirst>>
  /\ UNCHANGED <<rvars, hvars, comp>>

IpNext ==
  \/ \E c \in IpCalls : GetServerIp(c)
  \/ \E c \in IpCalls, v \in LookupResults : LookupResolves(c, v)
  \/ \E c \in IpCalls : LookupThrows(c)

Init == RetryInit /\ HttpInit /\ comp = IdleComp /\ IpInit
Next == RetryNext \/ HttpNext \/ ComposeNext \/ IpNext

Spec == Init /\ [][Next]_vars

\* The retry executors, both implementations.
RetrySpec == Init /\ [][RetryNext]_vars

\* The HTTP client, no retry executor running.
HttpOnlyInit ==
  /\ Init
  /\ impl = "util" /\ retries = Unset /\ timeout = Unset /\ delay = Unset
  /\ pred = NoPred
HttpSpec == HttpOnlyInit /\ [][HttpNext]_vars

\* Several calls in flight on one instance.
ConcOptions == {o \in Options : ~o.randomizeUserAgent}
ConcDescriptors == {d \in Descriptors : d.headers = None}
ConcResponses == {r \in Responses : r.status \in {200, 400}}
ConcMessages == {M_axiosTimeout, M_network}
ConcNext ==
  \/ \E o \in ConcOptions : SetupInstance(o, "ua-1")
  \/ \E c \in ConcCallSet, d \in ConcDescriptors : Request(c, d)
  \/ \E c \in ConcCallSet : TimerFires(c)
  \/ \E c \in ConcCallSet, r \in ConcResponses : TransportResponds(c, r)
  \/ \E c \in ConcCallSet, m \in ConcMessages : TransportThrows(c, m)
ConcSpec == HttpOnlyInit /\ [][ConcNext]_vars

\* getServerIp alone.
IpSpec == HttpOnlyInit /\ [][IpNext]_vars

\* Composition alone, over a wider set of configurations and descriptors.
ComposeInit ==
  /\ RetryInit /\ HttpInit /\ IpInit
  /\ impl = "util" /\ retries = Unset /\ timeout = Unset /\ delay = Unset
  /\ pred = NoPred
  /\ \E k \in ComposeConfigs, d \in ComposeDescriptors :
       comp = [IdleComp EXCEPT !.bUrl = k.bUrl, !.bHeaders = k.bHeaders,
                               !.bData = k.bData, !.input = d, !.params = d]
ComposeSpec == ComposeInit /\ [][ComposeNext]_vars

\* UtilService.retryOnException alone, on the single-threaded event loop:
\* every enabled step of the executor is eventually taken, every invocation
\* of the operation returns, every timer expires and the clock advances.
UtilInit == Init /\ impl = "util"
FairUtilSpec ==
  /\ UtilInit
  /\ [][RetryNext]_vars
  /\ WF_vars(Invoke)
  /\ WF_vars(OpReturns)
  /\ WF_vars(HaltDone)
  /\ SF_vars(Tick)

(***************************************************************************)
(* Claims about the retry executors.                                       *)
(***************************************************************************)
\* A retry limit (any number, 0 included) and nothing else.
OnlyRetryLimit == retries # Unset /\ timeout = Unset /\ pred = NoPred
\* The most recent finished invocation threw.
LastFailed == fails > 0 /\ ~lastOk

\* C1: for every retry limit N >= 0, with no time budget and no abort
\* predicate, an operation that fails on every invocation is invoked exactly
\* N+1 times and the executor then ends in Failed; there is no (N+2)-th
\* invocation.
C1_InvokedNPlusOneTimes ==
  (OnlyRetryLimit /\ succs = 0) =>
     /\ calls <= retries + 1
     /\ calls = retries + 1 => pc \in {"Running", "Failed"}
     /\ pc = "Failed" => calls = retries + 1

\* The caller's predicate is present and returns true on e.
AbortsOn(e) == pred # NoPred /\ e \in pred

\* C2: when an invocation fails with an error on which breakIf returns true,
\* retryOnException re-raises at once, whatever retries and timeout are: no
\* further invocation and no delay follow that failure, and an abort on the
\* first failure leaves the operation invoked exactly once.
C2_AbortIsImmediate ==
  (impl = "util" /\ LastFailed /\ AbortsOn(lastErr)) =>
     /\ pc = "Failed"
     /\ calls < CallCap => waits = calls - 1
     /\ fails = 1 => (calls = 1 /\ waits = 0)

C2_Witness ==
  /\ impl = "util" /\ pc = "Failed" /\ AbortsOn(lastErr)
  /\ calls = 1 /\ Truthy(retries) /\ Truthy(timeout)
  /\ ~RetriesExceeded(retries, tentative) /\ ~TimeoutExceeded(timeout, elapsed)

\* C3: as soon as one invocation resolves, the executor returns that
\* invocation's result and never invokes the operation again, for every
\* result value (falsy ones included) and for both implementations.
C3_FirstSuccessIsReturned ==
  succs > 0 => (pc = "Succeeded" /\ succs = 1 /\ result = firstRes)

\* C4: whenever the executor ends in Failed, whichever stop condition fired,
\* the error it raises is the error of the most recent invocation, not a
\* wrapper and not an earlier attempt's error.
C4_RaisesLastError ==
  pc = "Failed" => (raised = lastErr /\ raised \in Errors)

C4_Witness ==
  /\ pc = "Failed" /\ fails >= 2 /\ firstErr # lastErr /\ raised = lastErr
  /\ TimeoutExceeded(timeout, elapsed) /\ ~RetriesExceeded(retries, tentative)

\* A time budget of at least 1 ms and nothing else.
OnlyTimeBudget == impl = "util" /\ Truthy(timeout) /\ retries = Unset /\ pred = NoPred

BoundSupplied == retries # Unset \/ Truthy(timeout)

\* C6: if the caller supplies a retry limit or a time budget, the executor
\* eventually ends in Succeeded or Failed, provided every invocation of the
\* operation returns, scheduling is fair and the clock advances.
C6_BoundGuaranteesTermination ==
  BoundSupplied => <>(pc \in Terminal)

NoBounds == retries = Unset /\ timeout = Unset /\ pred = NoPred

\* C7: with no retry limit, no time budget and no abort predicate the
\* executor never reaches Failed: every failure is followed by another
\* attempt.
C7_UnboundedNeverFails ==
  NoBounds =>
     /\ pc # "Failed"
     /\ LastFailed => pc \in {"Halting", "Attempting", "Running"}
     /\ raised = NoErr

C7_Witness ==
  NoBounds /\ pc = "Running" /\ calls = CallCap /\ succs = 0 /\ now = ClockCap

(***************************************************************************)
(* Claims about HttpsService.request.                                      *)
(***************************************************************************)
TimeoutOutcome(k) ==
  /\ k.pc = "thrown"
  /\ k.error.kind = "InternalServerError"
  /\ k.error.prefix = "Request timeout"
  /\ k.value = NoValue

SameOutcome(k, l) ==
  k.pc = l.pc /\ k.error = l.error /\ k.value = l.value /\ k.res = l.res

Rejects(v, st) ==
  \/ v = "lt400" /\ st >= 400
  \/ v = "lt500" /\ st >= 500

C10_UnconfiguredFailsAtOnce ==
  [][\A c \in Calls :
       /\ (~instance /\ call[c].pc = "idle" /\ call'[c].pc # "idle")
            => /\ call'[c].pc = "thrown"
               /\ call'[c].error = NotConfiguredError
               /\ call'[c].params = call'[c].desc
               /\ call'[c].raw = None
               /\ call'[c].transport = "none"
               /\ call'[c].timer = "none"
               /\ call'[c].value = NoValue
       /\ call[c].error.kind = "NotConfigured" => call'[c] = call[c]]_vars

C10_Witness ==
  \E c \in Calls :
    /\ call[c].error.kind = "NotConfigured" /\ call[c].pc = "thrown"
    /\ IsSome(call[c].desc.headers) /\ call[c].desc.timeout = 0
    /\ call[c].params = call[c].desc
    /\ instance

Ended(k) == k.pc \in {"returned", "thrown"}
Prefixes == {"Request timeout", "Request failed", "Request exception"}
IsNormalized(e) ==
  e.kind = "InternalServerError" /\ e.httpStatus = INTERNAL_SERVER_ERROR
    /\ e.prefix \in Prefixes

OneOutcome(k) ==
  /\ k.pc \in {"idle", "racing", "returned", "thrown"}
  /\ k.sends <= 1
  /\ ~Ended(k) => (k.error = NoError /\ k.value = NoValue)
  /\ k.pc = "returned" => (k.error = NoError /\ k.value # NoValue /\ k.sends = 1)
  /\ (k.pc = "thrown" /\ k.sends = 1) => (IsNormalized(k.error) /\ k.value = NoValue)

\* C11: every request() call on a configured instance issues at most one
\* transport call and ends either by returning a result or by raising one
\* internal-server-error exception (status 500) with one of the three
\* prefixes; no failure path lets another error type through, and a call that
\* has ended is not run again.
C11_OneNormalizedErrorPerFailure ==
  [][\A c \in Calls :
       /\ OneOutcome(call'[c])
       /\ Ended(call[c]) =>
            (SameOutcome(call[c], call'[c]) /\ call'[c].sends = call[c].sends)]_vars

C11_Witness ==
  \E c \in Calls :
    /\ call[c].pc = "thrown" /\ call[c].sends = 1 /\ call[c].winner = "transport"
    /\ call[c].error.prefix = "Request exception" /\ IsNormalized(call[c].error)
    /\ call[c].timer = "fired"

\* C12: the request snapshot carried by every NormalizedError is the request
\* as it was sent after composition: its URL is the absolute URL (base URL
\* prepended, template variables substituted) and its headers are the merged
\* base and descriptor headers.
C12_SnapshotIsResolvedRequest ==
  \A c \in Calls :
    (call[c].pc = "thrown" /\ call[c].error.kind = "InternalServerError") =>
       /\ call[c].error.url = call[c].params.url
       /\ Get(call[c].error.config).url = call[c].params.url
       /\ Get(call[c].error.config).headers = call[c].params.headers

\* C12 as amended: the snapshot is the descriptor as request() received it,
\* copied before composition, with only its timeout replaced by the effective
\* timeout: its URL is the descriptor's url and its headers are the
\* descriptor's own headers.
C12_SnapshotIsDescriptorAsPassed ==
  \A c \in Calls :
    (call[c].pc = "thrown" /\ call[c].error.kind = "InternalServerError") =>
       LET cfg == Get(call[c].error.config)
           d == call[c].desc
       IN /\ [cfg EXCEPT !.timeout = d.timeout] = d
          /\ Truthy(d.timeout) => cfg.timeout = d.timeout
          /\ ~Truthy(d.timeout) => Truthy(cfg.timeout)
          /\ call[c].error.url = d.url
          /\ call[c].error.method = d.method

C12_Witness ==
  \E c \in Calls :
    /\ call[c].pc = "thrown" /\ call[c].error.kind = "InternalServerError"
    /\ IsSome(call[c].desc.replacements)
    /\ call[c].error.url = S_tpl
    /\ IsPrefix(S_base, call[c].params.url)
    /\ ~Truthy(call[c].desc.timeout)

\* C13: on every successful request() the return mode is the descriptor's
\* returnType when it gives one and the instance default otherwise, the
\* instance default being DATA when setupInstance was given none; DATA
\* returns exactly the response body, FULL the response envelope, and one of
\* the two applies.
C13_ReturnModeResolution ==
  [][/\ IsSome(setupParams') =>
          defaultReturnType' =
            IF Get(setupParams').defaultReturnType \in ReturnTypes
              THEN Get(setupParams').defaultReturnType ELSE "DATA"
     /\ \A c \in Calls :
          (call[c].pc = "racing" /\ call'[c].pc = "returned") =>
            LET pr == call[c].desc.returnType
                mode == IF pr \in ReturnTypes THEN pr ELSE defaultReturnType
                r == Get(call'[c].res)
                v == call'[c].value
            IN /\ mode \in ReturnTypes
               /\ v.kind = mode
               /\ mode = "DATA" => (v.data = r.data /\ v.res = None)
               /\ mode = "FULL" => (v.res = Some(r) /\ r \in Responses)]_vars

C13_Witness ==
  \E c \in Calls :
    /\ call[c].pc = "returned" /\ call[c].desc.returnType = "DATA"
    /\ defaultReturnType = "FULL"
    /\ call[c].value.kind = "DATA" /\ call[c].value.data = BodyOf(200)

(***************************************************************************)
(* Request composition.                                                    *)
(***************************************************************************)
\* The fields of a descriptor that composition may read.
SameDescriptor(p, q) ==
  /\ p.url = q.url /\ p.headers = q.headers /\ p.data = q.data
  /\ p.params = q.params /\ p.form = q.form /\ p.timeout = q.timeout

SameResolved(p, q) == p.url = q.url /\ p.headers = q.headers /\ p.data = q.data

\* C14: composing a request leaves the caller's descriptor as it was passed
\* (url, headers, body, query, form, timeout), and a second call with the same
\* descriptor resolves to the same url, headers and body as the first.
C14_CompositionIsPure ==
  /\ comp.count >= 1 => SameDescriptor(comp.params, comp.input)
  /\ comp.count >= 2 => SameResolved(comp.params, Get(comp.first))

\* The orders in which the keys of a replacements object can be processed.
Orders(reps) ==
  {[i \in 1..Len(reps) |-> reps[f[i]]] :
     f \in {g \in [1..Len(reps) -> 1..Len(reps)] :
              \A i, j \in 1..Len(reps) : i # j => g[i] # g[j]}}

\* C15: the resolved url is baseUrl + url with every ":key" replaced by the
\* percent-encoded value of the key, whatever the order in which the keys are
\* processed.
C15_UrlIsOrderIndependent ==
  comp.count = 1 =>
    LET u == comp.bUrl \o comp.input.url
        reps == IF IsSome(comp.input.replacements)
                  THEN Get(comp.input.replacements) ELSE <<>>
    IN \A q \in Orders(reps) : comp.params.url = ApplyReplacements(u, q)

\* Header names are case-insensitive.
Lower(name) == IF name = "Content-Type" THEN "content-type" ELSE name

ContentTypes(h) == {i \in 1..Len(h) : Lower(h[i][1]) = "content-type"}

\* C16: with a form, the resolved body is the url-encoded form (base data
\* merged in, any body of the descriptor replaced) and the resolved request has
\* exactly one content-type header, application/x-www-form-urlencoded.
C16_FormIsEncodedWithOneContentType ==
  (comp.count = 1 /\ IsSome(comp.input.form)) =>
    LET f == IF IsSome(comp.bData)
               THEN Merge(Get(comp.bData), Get(comp.input.form))
               ELSE Get(comp.input.form)
        h == Get(comp.params.headers)
    IN /\ comp.params.data = Some(StrBody(QsStringify(f)))
       /\ Cardinality(ContentTypes(h)) = 1
       /\ \A i \in ContentTypes(h) : h[i][2] = FormContentType

(***************************************************************************)
(* The stored configuration.                                               *)
(***************************************************************************)
Config ==
  <<baseUrl, baseHeaders, baseData, instTimeout, defaultValidator, defaultReturnType>>

\* What setupInstance(o) stores, o as setupInstance left it.
StoredOf(o) ==
  <<o.baseUrl, o.baseHeaders, o.baseData,
    IF o.defaultTimeout > 0 THEN o.defaultTimeout ELSE HTTPS_DEFAULT_TIMEOUT,
    IF o.defaultValidator \in Validators THEN o.defaultValidator ELSE "lt400",
    IF o.defaultReturnType \in ReturnTypes THEN o.defaultReturnType ELSE "DATA">>

\* C17 as stated: once the instance is configured, no step (setupInstance,
\* request, per-verb call) changes the stored configuration.
C17_ConfigurationSetOnce == [][instance => Config' = Config]_vars

\* C17: request and per-verb calls, and the steps that settle them, never
\* change the stored configuration; it is always what the latest setupInstance
\* was given.
C17_OnlySetupChangesConfiguration ==
  [][/\ call' # call => Config' = Config
     /\ IsSome(setupParams') => Config' = StoredOf(Get(setupParams'))]_vars

C17_Witness ==
  \E c \in Calls :
    /\ call[c].pc = "racing" /\ IsPrefix(S_base, call[c].params.url)
    /\ Get(call[c].params.headers) # EmptyObj
    /\ instance /\ baseUrl = <<>> /\ baseHeaders = Some(EmptyObj)

(***************************************************************************)
(* Cancellation and the fields of the error.                               *)
(***************************************************************************)
\* C19: a call that failed because its timer won the race has had the
\* cancellation of its transport request signalled by the time the timeout
\* error is raised; a call whose transport completed first (response accepted
\* or rejected, or exception) never has.
C19_CancelledIffTimerWon ==
  \A c \in Calls :
    /\ (call[c].pc = "thrown" /\ call[c].winner = "timer") =>
         (call[c].cancelled /\ call[c].error.prefix = "Request timeout")
    /\ call[c].winner = "transport" => ~call[c].cancelled
    /\ call[c].cancelled => (call[c].winner = "timer" /\ call[c].timer = "fired")

C19_Witness ==
  \E c \in Calls :
    /\ call[c].pc = "thrown" /\ call[c].winner = "timer" /\ call[c].cancelled
    /\ call[c].transport = "inflight" /\ call[c].params.cancelToken

ResponseFieldsPresent(e) ==
  e.status # Unset /\ e.headers # None /\ e.data # "undefined"

ResponseFieldsAbsent(e) ==
  e.status = Unset /\ e.headers = None /\ e.data = "undefined"

\* C20: the status, headers and body of an error raised by request() are all
\* present, and those of the response, exactly when a response was received
\* (prefix "Request failed"); they are all undefined for a timeout, timer-won
\* or reported by the transport, and for any other transport exception.
C20_ErrorFieldsMatchCategory ==
  \A c \in Calls :
    (call[c].pc = "thrown" /\ call[c].sends = 1) =>
      LET err == call[c].error
      IN /\ ResponseFieldsPresent(err) \/ ResponseFieldsAbsent(err)
         /\ ResponseFieldsPresent(err) <=> err.prefix = "Request failed"
         /\ err.prefix = "Request failed" <=> IsSome(call[c].res)
         /\ IsSome(call[c].res) =>
              /\ err.status = Get(call[c].res).status
              /\ err.headers = Some(Get(call[c].res).headers)
              /\ err.data = Get(call[c].res).data
         /\ err.prefix \in {"Request timeout", "Request exception"} =>
              ResponseFieldsAbsent(err)

C20_Witness ==
  \E c \in Calls :
    /\ call[c].pc = "thrown" /\ call[c].error.prefix = "Request failed"
    /\ ResponseFieldsPresent(call[c].error) /\ call[c].error.status = 500
    /\ call[c].timer = "pending"

(***************************************************************************)
(* Calls in flight together.                                               *)
(***************************************************************************)
\* C18: with several request() calls in flight on one instance, a step of one
\* call (its request, its timer firing, its transport completing) changes no
\* other call; cancellation is signalled on a call only by its own timer; an
\* ended call keeps its outcome; and the outcome reports the call's own
\* request and its own response.
C18_CallsAreIndependent ==
  [][\A c \in ConcCallSet :
       /\ call'[c] # call[c] =>
            \A d \in ConcCallSet \ {c} : call'[d] = call[d]
       /\ (call'[c].cancelled /\ ~call[c].cancelled) =>
            (call[c].timer = "pending" /\ call'[c].timer = "fired")
       /\ call[c].pc # "idle" => call'[c].desc = call[c].desc
       /\ call[c].pc \in {"returned", "thrown"} =>
            /\ call'[c].pc = call[c].pc /\ call'[c].error = call[c].error
            /\ call'[c].value = call[c].value /\ call'[c].res = call[c].res
            /\ call'[c].cancelled = call[c].cancelled
       /\ (call[c].pc = "racing" /\ call'[c].pc = "thrown") =>
            /\ call'[c].error.config = call[c].raw
            /\ call'[c].error.url = call[c].desc.url
       /\ (call[c].pc = "racing" /\ call'[c].pc = "returned") =>
            /\ call'[c].value.kind = "DATA" => call'[c].value.data = Get(call'[c].res).data
            /\ call'[c].value.kind = "FULL" => call'[c].value.res = call'[c].res]_vars

C18_Witness ==
  \E c, d \in ConcCallSet :
    /\ c # d /\ call[c].desc = call[d].desc
    /\ call[c].pc = "thrown" /\ call[c].winner = "timer" /\ call[c].cancelled
    /\ call[d].pc = "returned" /\ call[d].winner = "transport" /\ ~call[d].cancelled
    /\ call[d].timer = "pending"

DelayBetween == IF delay > 0 THEN delay ELSE 0

\* C22: in every run of retryOnException attempts and delays alternate: no
\* wait precedes the first invocation, every later invocation starts after
\* exactly one wait of the delay (0 when not given) that began at the failure
\* of the invocation before it and has completed, and no wait follows a
\* success or the failure on which the executor stops.
C22_AttemptsAndDelaysAlternate ==
  [][impl = "util" =>
       /\ (pc = "Attempting" /\ pc' = "Running") =>
            /\ haltLeft = 0
            /\ calls = 0 => waits = 0
            /\ (calls > 0 /\ calls < CallCap) =>
                 (waits = calls /\ LastFailed
                    /\ (now >= elapsed + DelayBetween \/ now = ClockCap))
       /\ (pc # "Halting" /\ pc' = "Halting") =>
            /\ pc = "Running" /\ (fails' # fails \/ fails = HistCap)
            /\ haltLeft' = DelayBetween
            /\ calls < CallCap => (waits = calls - 1 /\ waits' = calls)
       /\ (pc = "Halting" /\ pc' # "Halting") =>
            (haltLeft = 0 /\ pc' = "Attempting" /\ waits' = waits)
       /\ (pc = "Halting" /\ haltLeft' # haltLeft) =>
            (haltLeft' = haltLeft - 1 /\ (now' = now + 1 \/ now = ClockCap))
       /\ (pc # "Halting" /\ pc' # "Halting") => waits' = waits
       /\ (pc' \in Terminal /\ calls < CallCap) => waits' = calls - 1
       /\ pc \in Terminal => (pc' = pc /\ waits' = waits /\ calls' = calls)]_vars

C22_Witness ==
  /\ impl = "util" /\ pc = "Succeeded" /\ calls = 3 /\ waits = 2
  /\ delay = MaxDelay /\ fails = 2 /\ now >= 2 * MaxDelay

(***************************************************************************)
(* The cache of getServerIp.                                               *)
(***************************************************************************)
\* C23: getServerIp never raises; once a call has obtained the server ip the
\* cache keeps that value (it is never emptied), and every call made after
\* that returns it without a request; a failed lookup returns without
\* raising, no ip when none was obtained, and leaves the cache empty.
C23_ServerIpIsCachedOnce ==
  /\ IsSome(ipFirst) => serverIp = Get(ipFirst)
  /\ \A c \in IpCalls :
       /\ ipCall[c].pc \in {"idle", "awaiting", "returned"}
       /\ (ipCall[c].afterSet /\ ipCall[c].pc # "idle") =>
            (~ipCall[c].sent /\ ipCall[c].pc = "returned"
               /\ ipCall[c].ret = Get(ipFirst))
       /\ (ipCall[c].failed /\ ~IsSome(ipFirst)) =>
            (IpFalsy(ipCall[c].ret) /\ IpFalsy(serverIp))

====
